---- MODULE Spec2Model ----
(***************************************************************************)
(* A model of pdb2pqr/io.py: the logging filter, the atom-line formatter,  *)
(* the PQR header builders, the structure loader, the PQR/PDB emitters,    *)
(* the atom_site column remapper and the DX reader / Cube writer.          *)
(*                                                                         *)
(* Text is modelled at two grains.  Where the code looks inside a line     *)
(* (split, slices, startswith) a string is a sequence of one-character     *)
(* strings.  Where the code only concatenates whole lines (the headers)    *)
(* a string is the sequence of its lines.                                  *)
(*                                                                         *)
(* Each component has its own specification (SpecFilter, SpecAtoms, ...);  *)
(* the variables of the other components stay at their idle values.        *)
(***************************************************************************)
EXTENDS Integers, Sequences, FiniteSets, TLC

VARIABLES
    \* DuplicateFilter
    warn_count,     \* self.warn_count: watched prefix (its index) -> count
    f_rec,          \* the record of the last filter() call, or NoRecord
    f_ret,          \* what the last filter() call returned
    f_prev,         \* warn_count as it was before the last call
    notices,        \* prefixes of the "Suppressing further" notices, in order
    f_calls,        \* number of filter() calls so far
    \* print_biomolecule_atoms
    atomlist,       \* the caller's atoms (mutated in place: serial)
    pba_args,       \* [chainflag, pdbfile, ciffile]
    pba_in,         \* atomlist as it was at the call
    text,           \* the returned list
    pba_pc,         \* "call" | "returned" | "raised"
    \* print_pqr_header / print_pqr_header_cif
    h_args,         \* the arguments of the call
    head,           \* the returned string, as the sequence of its lines
    h_log,          \* warnings logged by the call
    h_pc,           \* "call" | "pqr" | "cif" | "old" (which function returned)
    \* generate_atom_site_columns
    pdb_lines,      \* the argument: a list of lines
    cols,           \* the returned tuple of 21 columns
    c_pc,           \* "call" | "returned"
    \* files
    open_files,     \* the file handles that are open (opened and not closed)
    \* get_molecule / get_definitions
    m_in,           \* the last call: its arguments and what its environment gave
    m_out,          \* the last call's outcome: a return value or an exception
    m_log,          \* what the last call logged
    m_calls,        \* number of calls so far
    \* print_pqr / print_pdb
    e_args,         \* the arguments of the call
    outfile,        \* the output file: the strings written, in order
    e_log,          \* warnings logged by the call
    e_pc,           \* "call" | "print_pqr" | "print_pdb" (which one returned)
    \* read_dx / write_cube
    dx_in,          \* the numbers the DX text was rendered from
    dx_file,        \* the DX file: its lines
    dx_dict,        \* what read_dx returned
    g_atoms,        \* the atom_list given to write_cube
    cube_file,      \* the Cube file: the strings written, in order
    g_pc            \* "call" | "read" | "IndexError" | "written"

fvars == <<warn_count, f_rec, f_ret, f_prev, notices, f_calls>>
avars == <<atomlist, pba_args, pba_in, text, pba_pc>>
hvars == <<h_args, head, h_log, h_pc>>
cvars == <<pdb_lines, cols, c_pc>>
mvars == <<m_in, m_out, m_log, m_calls>>
evars == <<e_args, outfile, e_log, e_pc>>
gvars == <<dx_in, dx_file, dx_dict, g_atoms, cube_file, g_pc>>
vars == <<fvars, avars, hvars, cvars, open_files, mvars, evars, gvars>>

\* What an operation of one component leaves alone.
notF == <<avars, hvars, cvars, open_files, mvars, evars, gvars>>
notA == <<fvars, hvars, cvars, open_files, mvars, evars, gvars>>
notH == <<fvars, avars, cvars, open_files, mvars, evars, gvars>>
notC == <<fvars, avars, hvars, open_files, mvars, evars, gvars>>
notM == <<fvars, avars, hvars, cvars, evars, gvars>>
notE == <<fvars, avars, hvars, cvars, mvars, gvars>>
notG == <<fvars, avars, hvars, cvars, open_files, mvars, evars>>

None == "None"

(***************************************************************************)
(* Generic helpers                                                         *)
(***************************************************************************)
SeqsUpTo(S, n) == UNION {[1..k -> S] : k \in 0..n}

Min(a, b) == IF a < b THEN a ELSE b

\* Strings are sequences of characters: Len, SubSeq and \o apply to them.
\* s[a:b] and s[a:] of Python, for 0 <= a <= b.
Slice(s, a, b) == SubSeq(s, a + 1, Min(b, Len(s)))
SliceFrom(s, a) == SubSeq(s, a + 1, Len(s))
CharAt(s, i) == SubSeq(s, i, i)

\* str.startswith
StartsWith(s, p) == Len(s) >= Len(p) /\ SubSeq(s, 1, Len(p)) = p

\* str.split() with no argument: the maximal runs of non-whitespace.
Whitespace == {" ", "\t", "\n", "\r"}
IsWs(s, i) == CharAt(s, i) \in Whitespace
MinOf(S) == CHOOSE x \in S : \A y \in S : x <= y
\* The words from character i on: skip the whitespace, take the run of
\* non-whitespace, go on after it.
RECURSIVE SplitFrom(_, _)
SplitFrom(s, i) ==
    LET starts == {j \in i..Len(s) : ~IsWs(s, j)}
    IN  IF starts = {} THEN <<>>
        ELSE LET b == MinOf(starts)
                 stops == {j \in b..Len(s) : IsWs(s, j)}
                 e == IF stops = {} THEN Len(s) + 1 ELSE MinOf(stops)
             IN  <<SubSeq(s, b, e - 1)>> \o SplitFrom(s, e)
Split(s) == SplitFrom(s, 1)

\* sep.join(words)
RECURSIVE Join(_, _)
Join(sep, words) ==
    IF words = <<>> THEN ""
    ELSE IF Len(words) = 1 THEN words[1]
    ELSE words[1] \o sep \o Join(sep, Tail(words))

(***************************************************************************)
(* DuplicateFilter (io.py 24-46)                                           *)
(***************************************************************************)
\* The watched prefixes and the limit are set in pdb2pqr/config.py, which is
\* imported at io.py 17 and is not among the sources; the values here stand
\* in for them.  No watched prefix is a prefix of another.
FILTER_WARNINGS ==
    <<"Skipped atom during water optimization", "Multiple occupancies found">>
FILTER_WARNINGS_LIMIT == 3

MaxRecords == 6
Messages ==
    {"Skipped atom during water optimization",
     "Skipped atom during water optimization: HOH 12",
     "Skipped atom",
     "Multiple occupancies found: ALA 3",
     "multiple occupancies found",
     "Suppressing further \"Multiple occupancies found\" messages",
     "Missing atom CA",
     ""}
LevelNames == {"WARNING", "INFO", "ERROR"}
LogRecords == [levelname : LevelNames, msg : Messages]
NoRecord == [levelname |-> None, msg |-> ""]

FwIndex == 1..Len(FILTER_WARNINGS)
Matching(msg) == {i \in FwIndex : StartsWith(msg, FILTER_WARNINGS[i])}

\* The first fwarn of the for loop whose startswith test passes; 0 if none
\* (the loop returns inside the first match, so later prefixes are not tried).
FirstMatch(msg) ==
    IF Matching(msg) = {} THEN 0
    ELSE CHOOSE i \in Matching(msg) : \A j \in Matching(msg) : i <= j

\* A variant that repeats the notice at every record from the limit on.
FilterVerdictNoticeFromLimitOn(count) ==
    IF count >= FILTER_WARNINGS_LIMIT THEN [ret |-> FALSE, notice |-> TRUE]
    ELSE [ret |-> TRUE, notice |-> FALSE]

\* Lines 37-45: the verdict for a post-increment count.
FilterVerdict(count) ==
    IF count > FILTER_WARNINGS_LIMIT THEN [ret |-> FALSE, notice |-> FALSE]
    ELSE IF count = FILTER_WARNINGS_LIMIT THEN [ret |-> FALSE, notice |-> TRUE]
    ELSE [ret |-> TRUE, notice |-> FALSE]

FilterInit ==
    /\ warn_count = [i \in FwIndex |-> 0]
    /\ f_rec = NoRecord
    /\ f_ret = TRUE
    /\ f_prev = [i \in FwIndex |-> 0]
    /\ notices = <<>>
    /\ f_calls = 0

\* A variant without the level test of line 34.
filterAnyLevel(record) ==
    /\ f_calls < MaxRecords
    /\ f_calls' = f_calls + 1
    /\ f_rec' = record
    /\ f_prev' = warn_count
    /\ IF FirstMatch(record.msg) # 0
       THEN LET fwarn == FirstMatch(record.msg)
                count == warn_count[fwarn] + 1
                v == FilterVerdict(count)
            IN  /\ warn_count' = [warn_count EXCEPT ![fwarn] = count]
                /\ f_ret' = v.ret
                /\ notices' = IF v.notice THEN Append(notices, fwarn)
                              ELSE notices
       ELSE /\ f_ret' = TRUE
            /\ UNCHANGED <<warn_count, notices>>
    /\ UNCHANGED notF

filter(record) ==
    /\ f_calls < MaxRecords
    /\ f_calls' = f_calls + 1
    /\ f_rec' = record
    /\ f_prev' = warn_count
    /\ IF record.levelname = "WARNING" /\ FirstMatch(record.msg) # 0
       THEN LET fwarn == FirstMatch(record.msg)
                count == warn_count[fwarn] + 1
                v == FilterVerdict(count)
            IN  /\ warn_count' = [warn_count EXCEPT ![fwarn] = count]
                /\ f_ret' = v.ret
                /\ notices' = IF v.notice THEN Append(notices, fwarn)
                              ELSE notices
       ELSE /\ f_ret' = TRUE
            /\ UNCHANGED <<warn_count, notices>>
    /\ UNCHANGED notF

Filter == \E record \in LogRecords : filter(record)

(***************************************************************************)
(* print_biomolecule_atoms (io.py 49-78)                                   *)
(***************************************************************************)
MaxAtoms == 3
ChainIds == {"A", "B"}
InputSerials == {0, 7}
Atoms == [serial : InputSerials, chain_id : ChainIds]

\* One element of the returned list.  An atom line is what the atom's
\* get_*_string renders at that moment: the dialect, and the atom's fields
\* (its serial as already reassigned).
TerLine == [kind |-> "TER\n"]
TerEnd == [kind |-> "TER\nEND"]
AtomLine(fmt, atom, chainflag) ==
    [kind |-> "atom", fmt |-> fmt, serial |-> atom.serial,
     chain_id |-> atom.chain_id, chainflag |-> chainflag]

\* Lines 70-75.
RenderAtom(atom, args) ==
    IF args.pdbfile THEN AtomLine("pdb", atom, FALSE)
    ELSE IF args.ciffile THEN AtomLine("cif", atom, FALSE)
    ELSE AtomLine("pqr", atom, args.chainflag)

\* Line 69: atom.serial = iatom + 1.
NewSerialOffByOne(iatom) == iatom
NewSerial(iatom) == iatom + 1

\* Lines 64-68: whether "TER\n" is appended before the atom's line.
ChainBreakNoneCheckDropped(currentchain_id, atom) ==
    atom.chain_id # currentchain_id
ChainBreak(currentchain_id, atom) ==
    currentchain_id # None /\ atom.chain_id # currentchain_id

\* The for loop of lines 62-75 over atoms[1..n]: the loop's state after n
\* iterations (the atoms with serials reassigned, the text, currentchain_id).
RECURSIVE PbaLoop(_, _, _)
PbaLoop(atoms, args, n) ==
    IF n = 0 THEN [atoms |-> atoms, text |-> <<>>, currentchain_id |-> None]
    ELSE LET p == PbaLoop(atoms, args, n - 1)
             atom == p.atoms[n]
             ter == ChainBreak(p.currentchain_id, atom)
             renum == [atom EXCEPT !.serial = NewSerial(n - 1)]
         IN  [atoms |-> [p.atoms EXCEPT ![n] = renum],
              text |-> (IF ter THEN Append(p.text, TerLine) ELSE p.text)
                       \o <<RenderAtom(renum, args)>>,
              currentchain_id |-> atom.chain_id]

\* Lines 76-77.
PbaClose(txt, args) == IF ~args.ciffile THEN Append(txt, TerEnd) ELSE txt

PbaArgs == [chainflag : BOOLEAN, pdbfile : BOOLEAN, ciffile : BOOLEAN]

AtomsInit ==
    /\ atomlist \in SeqsUpTo(Atoms, MaxAtoms)
    /\ pba_args \in PbaArgs
    /\ pba_in = atomlist
    /\ text = <<>>
    /\ pba_pc = "call"

print_biomolecule_atoms ==
    /\ pba_pc = "call"
    /\ IF pba_args.pdbfile /\ pba_args.ciffile
       THEN /\ pba_pc' = "raised"
            /\ UNCHANGED <<atomlist, text>>
       ELSE LET r == PbaLoop(atomlist, pba_args, Len(atomlist))
            IN  /\ atomlist' = r.atoms
                /\ text' = PbaClose(r.text, pba_args)
                /\ pba_pc' = "returned"
    /\ UNCHANGED <<pba_args, pba_in>>
    /\ UNCHANGED notA

AtomsIdle ==
    /\ atomlist = <<>>
    /\ pba_args = [chainflag |-> FALSE, pdbfile |-> FALSE, ciffile |-> FALSE]
    /\ pba_in = <<>>
    /\ text = <<>>
    /\ pba_pc = "idle"

(***************************************************************************)
(* Header text.  A header is the sequence of its lines: every piece the    *)
(* code concatenates ends with a line break.                               *)
(***************************************************************************)
Digit(n) == ToString(n % 10)
Abs(n) == IF n < 0 THEN -n ELSE n
Sign(n) == IF n < 0 THEN "-" ELSE ""

\* f"{x:.4f}" and f"{x:.2f}" for a value held in fixed point (x = n / 10^d).
Fmt4(n) ==
    Sign(n) \o ToString(Abs(n) \div 10000) \o "." \o Digit(Abs(n) \div 1000)
    \o Digit(Abs(n) \div 100) \o Digit(Abs(n) \div 10) \o Digit(Abs(n))
Fmt2(n) ==
    Sign(n) \o ToString(Abs(n) \div 100) \o "." \o Digit(Abs(n) \div 10)
    \o Digit(Abs(n))

\* str.upper on the forcefield names of the model.
Upper(name) ==
    CASE name = "amber" -> "AMBER"
      [] name = "Parse" -> "PARSE"
      [] OTHER -> name

\* config.TITLE_STR (imported at io.py 16; config.py is not among the sources).
TITLE_STR == "PDB2PQR: a Python-based structural conversion utility"

(***************************************************************************)
(* get_old_header (io.py 81-109)                                           *)
(***************************************************************************)
header_types ==
    {"HEADER", "TITLE", "COMPND", "SOURCE", "KEYWDS", "EXPDTA", "AUTHOR",
     "REVDAT", "JRNL", "REMARK", "SPRSDE", "NUMMDL"}

\* A parsed record: its class and what str() renders.
PdbObj(type, str) == [type |-> type, str |-> str]

\* A variant that passes over a record of another type and goes on.
RECURSIVE get_old_header_skips(_)
get_old_header_skips(pdblist) ==
    IF pdblist = <<>> THEN <<>>
    ELSE IF Head(pdblist).type \notin header_types
         THEN get_old_header_skips(Tail(pdblist))
    ELSE <<Head(pdblist).str>> \o get_old_header_skips(Tail(pdblist))

\* The returned string as the sequence of its lines: each record written is
\* followed by a line break (lines 106-107); the loop ends at the first
\* record that is not of a header type (lines 104-105).
RECURSIVE get_old_header(_)
get_old_header(pdblist) ==
    IF pdblist = <<>> THEN <<>>
    ELSE IF Head(pdblist).type \notin header_types THEN <<>>
    ELSE <<Head(pdblist).str>> \o get_old_header(Tail(pdblist))

(***************************************************************************)
(* print_pqr_header (io.py 112-217)                                        *)
(***************************************************************************)
\* Lines 144-147 (and 249-252 of the CIF variant).
ForceFieldName(force_field) ==
    IF force_field = None THEN "User force field" ELSE Upper(force_field)

PqrBannerLine == "REMARK   1 PQR file generated by PDB2PQR"
PqrForcefieldLine(ff) == "REMARK   1 Forcefield Used: " \o ff
PqrNamingLine(ffout) == "REMARK   1 Naming Scheme Used: " \o ffout
PqrPkaLine(method, ph) ==
    "REMARK   1 pKas calculated by " \o method \o " and assigned using pH "
    \o Fmt2(ph)
PqrOmitBanner ==
    <<"REMARK   5 WARNING: PDB2PQR was unable to assign charges",
      "REMARK   5 to the following atoms (omitted below):">>
PqrOmitLine(atom) ==
    "REMARK   5    " \o ToString(atom.serial) \o " " \o atom.name \o " in "
    \o atom.residue.name \o " " \o ToString(atom.residue.res_seq)
PqrOmitTrailer ==
    <<"REMARK   5 This is usually due to the fact that this residue is not",
      "REMARK   5 an amino acid or nucleic acid; or, there are no parameters",
      "REMARK   5 available for the specific protonation state of this",
      "REMARK   5 residue in the selected forcefield.",
      "REMARK   5">>
PqrChargeBanner ==
    <<"REMARK   5 WARNING: Non-integral net charges were found in",
      "REMARK   5 the following residues:">>
PqrChargeLine(residue) ==
    "REMARK   5    " \o residue.str \o " - Residue Charge: " \o Fmt4(residue.charge)
PqrTotalLine(charge) ==
    "REMARK   6 Total charge on this biomolecule: " \o Fmt4(charge) \o " e"

\* Lines 148-159: the banner block, the naming scheme, and the statement
\* head += head + "REMARK   1\n".
PqrTop(force_field, ffout) ==
    LET head0 == <<PqrBannerLine, "REMARK   1 " \o TITLE_STR, "REMARK   1",
                   PqrForcefieldLine(ForceFieldName(force_field))>>
        head1 == IF ffout # None THEN Append(head0, PqrNamingLine(ffout))
                 ELSE head0
    IN  head1 \o (head1 \o <<"REMARK   1">>)

\* Lines 160-168.
PqrPkaSection(ph_calc_method, ph) ==
    IF ph_calc_method # None
    THEN <<PqrPkaLine(ph_calc_method, ph), "REMARK   1">>
    ELSE <<>>

PqrOmittedSectionSkipsSingle(atoms) ==
    IF Len(atoms) > 1
    THEN PqrOmitBanner \o [i \in 1..Len(atoms) |-> PqrOmitLine(atoms[i])]
         \o PqrOmitTrailer
    ELSE <<>>

\* Lines 169-192.
PqrOmittedSection(atoms) ==
    IF Len(atoms) # 0
    THEN PqrOmitBanner \o [i \in 1..Len(atoms) |-> PqrOmitLine(atoms[i])]
         \o PqrOmitTrailer
    ELSE <<>>

\* Lines 193-204.
PqrChargeSection(reslist) ==
    IF Len(reslist) # 0
    THEN PqrChargeBanner \o [i \in 1..Len(reslist) |-> PqrChargeLine(reslist[i])]
         \o <<"REMARK   5">>
    ELSE <<>>

\* Lines 205-211.
PqrTotalSection(charge) == <<PqrTotalLine(charge), "REMARK   6">>

\* Lines 212-216.
PqrOldHeaderSection(include_old_header, pdblist) ==
    IF include_old_header
    THEN <<"REMARK   7 Original PDB header follows", "REMARK   7">>
         \o get_old_header(pdblist)
    ELSE <<>>

print_pqr_header(a) ==
    PqrTop(a.force_field, a.ffout)
    \o PqrPkaSection(a.ph_calc_method, a.ph)
    \o PqrOmittedSection(a.atomlist)
    \o PqrChargeSection(a.reslist)
    \o PqrTotalSection(a.charge)
    \o PqrOldHeaderSection(a.include_old_header, a.pdblist)

(***************************************************************************)
(* print_pqr_header_cif (io.py 220-334)                                    *)
(***************************************************************************)
CifOmitBanner ==
    <<"Warning: PDB2PQR was unable to assign charges",
      "to the following atoms (omitted below):">>
CifOmitLine(atom) ==
    "    " \o ToString(atom.serial) \o " " \o atom.name \o " in "
    \o atom.residue.name \o " " \o ToString(atom.residue.res_seq)
CifOmitTrailer ==
    <<"This is usually due to the fact that this residue is not",
      "an amino acid or nucleic acid; or, there are no parameters",
      "available for the specific protonation state of this",
      "residue in the selected forcefield.">>
CifChargeBanner ==
    <<"Warning: Non-integral net charges were found in",
      "the following residues:">>
CifChargeLine(residue) ==
    "    " \o residue.str \o " - Residue Charge: " \o Fmt4(residue.charge)

\* Lines 254-274.
CifTop(force_field, ffout, ph_calc_method, ph) ==
    <<"#", "loop_", "_pdbx_database_remark.id", "_pdbx_database_remark.text",
      "1", ";", "PQR file generated by PDB2PQR", TITLE_STR, "",
      "Forcefield used: " \o ForceFieldName(force_field)>>
    \o (IF ffout # None THEN <<"Naming scheme used: " \o ffout>> ELSE <<>>)
    \o <<"">>
    \o (IF ph_calc_method # None
        THEN <<"pKas calculated by " \o ph_calc_method
               \o " and assigned using pH " \o Fmt2(ph)>>
        ELSE <<>>)
    \o <<";", "2", ";">>

\* Lines 275-294.
CifOmittedSection(atoms) ==
    IF Len(atoms) > 0
    THEN CifOmitBanner \o [i \in 1..Len(atoms) |-> CifOmitLine(atoms[i])]
         \o CifOmitTrailer
    ELSE <<>>

\* Lines 295-305.
CifChargeSection(reslist) ==
    IF Len(reslist) > 0
    THEN CifChargeBanner \o [i \in 1..Len(reslist) |-> CifChargeLine(reslist[i])]
    ELSE <<>>

\* Lines 306-314.
CifTotalSection(charge) ==
    <<";", "3", ";",
      "Total charge on this biomolecule: " \o Fmt4(charge) \o " e" \o ";">>

\* Lines 317-333.
CifAtomSiteLoop ==
    <<"#", "loop_", "_atom_site.group_PDB", "_atom_site.id",
      "_atom_site.label_atom_id", "_atom_site.label_comp_id",
      "_atom_site.label_seq_id", "_atom_site.Cartn_x", "_atom_site.Cartn_y",
      "_atom_site.Cartn_z", "_atom_site.pqr_partial_charge",
      "_atom_site.pqr_radius">>

print_pqr_header_cif(a) ==
    CifTop(a.force_field, a.ffout, a.ph_calc_method, a.ph)
    \o CifOmittedSection(a.atomlist)
    \o CifChargeSection(a.reslist)
    \o CifTotalSection(a.charge)
    \o CifAtomSiteLoop

\* Lines 315-316.
CifHeaderLog(include_old_header) ==
    IF include_old_header
    THEN <<"Including original CIF header not implemented.">>
    ELSE <<>>

MaxOmitted == 2
MaxNonIntegral == 2
MaxPdbList == 2
HResidueRefs == {[name |-> "LIG", res_seq |-> 12]}
HAtoms ==
    {[serial |-> 4, name |-> "C1", residue |-> r] : r \in HResidueRefs}
    \cup {[serial |-> 17, name |-> "O2", residue |-> r] : r \in HResidueRefs}
HResidues ==
    {[str |-> "ASP A 3", charge |-> 3], [str |-> "LIG B 12", charge |-> -12500]}
HPdbObjs ==
    {PdbObj("HEADER", "HEADER    HYDROLASE"),
     PdbObj("REMARK", "REMARK   2 RESOLUTION."),
     PdbObj("ATOM", "ATOM      1")}
HPka == {[method |-> None, ph |-> None], [method |-> "propka", ph |-> 700]}

HeaderInit ==
    /\ \E pdblist \in SeqsUpTo(HPdbObjs, MaxPdbList),
          atoms \in SeqsUpTo(HAtoms, MaxOmitted),
          reslist \in SeqsUpTo(HResidues, MaxNonIntegral),
          force_field \in {None, "amber"},
          pka \in HPka,
          ffout \in {None, "AMBER"},
          include_old_header \in BOOLEAN :
        h_args = [pdblist |-> pdblist, atomlist |-> atoms, reslist |-> reslist,
                  charge |-> -10003, force_field |-> force_field,
                  ph_calc_method |-> pka.method, ph |-> pka.ph, ffout |-> ffout,
                  include_old_header |-> include_old_header]
    /\ head = <<>>
    /\ h_log = <<>>
    /\ h_pc = "call"

HeaderIdle ==
    /\ h_args = [pdblist |-> <<>>, atomlist |-> <<>>, reslist |-> <<>>,
                 charge |-> 0, force_field |-> None, ph_calc_method |-> None,
                 ph |-> None, ffout |-> None, include_old_header |-> FALSE]
    /\ head = <<>>
    /\ h_log = <<>>
    /\ h_pc = "idle"

PrintPqrHeader ==
    /\ h_pc = "call"
    /\ head' = print_pqr_header(h_args)
    /\ h_pc' = "pqr"
    /\ UNCHANGED <<h_args, h_log>>
    /\ UNCHANGED notH

PrintPqrHeaderCif ==
    /\ h_pc = "call"
    /\ head' = print_pqr_header_cif(h_args)
    /\ h_log' = CifHeaderLog(h_args.include_old_header)
    /\ h_pc' = "cif"
    /\ UNCHANGED h_args
    /\ UNCHANGED notH

\* get_old_header called on its own.
GetOldHeader ==
    /\ h_pc = "call"
    /\ head' = get_old_header(h_args.pdblist)
    /\ h_pc' = "old"
    /\ UNCHANGED <<h_args, h_log>>
    /\ UNCHANGED notH

(***************************************************************************)
(* generate_atom_site_columns (io.py 734-820)                              *)
(***************************************************************************)
\* Lines 736-764.
col_idx ==
    [group_PDB |-> 0, id |-> 1, type_symbol |-> 2, label_atom_id |-> 19,
     label_alt_id |-> 4, label_comp_id |-> 5, label_asym_id |-> 6,
     label_entity_id |-> 7, label_seq_id |-> 8, pdbx_PDB_ins_code |-> 9,
     Cartn_x |-> 10, Cartn_y |-> 11, Cartn_z |-> 12, occupancy |-> 13,
     B_iso_or_equiv |-> 14, pdbx_formal_charge |-> 15, auth_seq_id |-> 16,
     auth_comp_id |-> 17, auth_asym_id |-> 18, auth_atom_id |-> 19,
     pdbx_PDB_model_num |-> 20]

\* Lines 815-820: the order of the returned tuple.
ColumnOrder ==
    <<"group_PDB", "id", "type_symbol", "label_atom_id", "label_alt_id",
      "label_comp_id", "label_asym_id", "label_entity_id", "label_seq_id",
      "pdbx_PDB_ins_code", "Cartn_x", "Cartn_y", "Cartn_z", "occupancy",
      "B_iso_or_equiv", "pdbx_formal_charge", "auth_seq_id", "auth_comp_id",
      "auth_asym_id", "auth_atom_id", "pdbx_PDB_model_num">>

\* Line 782: the line is kept unless "not len(line) in [23, 25]".
AcceptLineAtLeast23(line) == Len(line) >= 23
AcceptLine(line) == Len(line) \in {23, 25}

\* Lines 785-812: one append to every column (line[k] of Python is line[k+1]).
AppendRow(columns, line) ==
    [k \in 1..Len(ColumnOrder) |->
        Append(columns[k], line[col_idx[ColumnOrder[k]] + 1])]

\* Lines 766-812: the columns after the first n lines.
RECURSIVE ColumnsLoop(_, _)
ColumnsLoop(lines, n) ==
    IF n = 0 THEN [k \in 1..Len(ColumnOrder) |-> <<>>]
    ELSE LET columns == ColumnsLoop(lines, n - 1)
             line == Split(lines[n])
         IN  IF ~AcceptLine(line) THEN columns ELSE AppendRow(columns, line)

generate_atom_site_columns(lines) == ColumnsLoop(lines, Len(lines))

MaxColLines == 2
TokenCounts == {0, 22, 23, 24, 25, 26}
\* A line of n tokens <tag>1 .. <tag>n separated by sep.
RECURSIVE TokenWords(_, _)
TokenWords(tag, n) ==
    IF n = 0 THEN <<>> ELSE Append(TokenWords(tag, n - 1), tag \o ToString(n))
TokenLine(tag, sep, n) == Join(sep, TokenWords(tag, n)) \o "\n"
ColLines ==
    {TokenLine("a", " ", n) : n \in TokenCounts}
    \cup {TokenLine("b", "  ", n) : n \in TokenCounts \ {0}}

ColumnsInit ==
    /\ pdb_lines \in SeqsUpTo(ColLines, MaxColLines)
    /\ cols = <<>>
    /\ c_pc = "call"

ColumnsIdle ==
    /\ pdb_lines = <<>>
    /\ cols = <<>>
    /\ c_pc = "idle"

GenerateAtomSiteColumns ==
    /\ c_pc = "call"
    /\ cols' = generate_atom_site_columns(pdb_lines)
    /\ c_pc' = "returned"
    /\ UNCHANGED pdb_lines
    /\ UNCHANGED notC

(***************************************************************************)
(* get_pdb_file, get_molecule (io.py 421-475)                              *)
(***************************************************************************)
MaxCalls == 3

MolPaths == {"1abc.pdb", "1ABC.CIF", "model.cif", "1abc"}

\* Path(name).suffix for a plain file name: from its last dot on, if it has
\* one after the first character.
MaxOf(S) == CHOOSE x \in S : \A y \in S : x >= y
Suffix(name) ==
    LET dots == {i \in 2..Len(name) : CharAt(name, i) = "."}
    IN  IF dots = {} THEN "" ELSE SubSeq(name, MaxOf(dots), Len(name))

\* str.lower, on the letters the paths of the model use.
LowerChar(c) ==
    CASE c = "A" -> "a" [] c = "B" -> "b" [] c = "C" -> "c"
      [] c = "F" -> "f" [] c = "I" -> "i" [] OTHER -> c
RECURSIVE Lower(_)
Lower(str) ==
    IF str = "" THEN ""
    ELSE LowerChar(CharAt(str, 1)) \o Lower(SubSeq(str, 2, Len(str)))

\* What the parser (cif.read_cif, pdb.read_pdb) hands back.
ParsedLists == {<<>>, <<PdbObj("ATOM", "ATOM      1")>>}
ErrorLists == {<<>>, <<"bad record">>}

Return(value) == [kind |-> "return", value |-> value]
Raise(exc) == [kind |-> "raise", value |-> exc]

\* The handle of the n-th open() of the run.
Handle(path, n) == [path |-> path, n |-> n]

\* get_pdb_file, lines 436-446.  The module never imports or defines the name
\* "requests" (imports: lines 2-18), so in the else branch the lookup at line
\* 442 raises NameError and lines 443-446 are not reached.
get_pdb_file(name, is_file, n) ==
    IF is_file
    THEN [out |-> Return(Handle(name, n)), opened |-> {Handle(name, n)}]
    ELSE [out |-> Raise("NameError"), opened |-> {}]

MoleculeResultNoRecordsFatal(path, is_cif, pdblist, errlist) ==
    IF Len(pdblist) = 0
    THEN [out |-> Raise("RuntimeError"), log |-> <<>>]
    ELSE [out |-> Return([pdblist |-> pdblist, is_cif |-> is_cif]), log |-> <<>>]

\* Lines 467-475, once the parser has returned: the outcome and the log.
MoleculeResult(path, is_cif, pdblist, errlist) ==
    IF Len(pdblist) = 0 /\ Len(errlist) = 0
    THEN [out |-> Raise("RuntimeError"), log |-> <<>>]
    ELSE [out |-> Return([pdblist |-> pdblist, is_cif |-> is_cif]),
          log |-> IF Len(errlist) # 0
                  THEN <<[level |-> "WARNING",
                          msg |-> IF is_cif THEN "non-standard CIF file"
                                  ELSE "non-standard PDB file"],
                         [level |-> "ERROR", msg |-> errlist]>>
                  ELSE <<>>]

\* get_molecule, lines 459-475.  No statement of it closes input_file.
get_molecule(input_path, is_file, pdblist, errlist) ==
    /\ m_calls < MaxCalls
    /\ m_calls' = m_calls + 1
    /\ LET f == get_pdb_file(input_path, is_file, m_calls + 1)
           is_cif == Lower(Suffix(input_path)) = ".cif"
           r == MoleculeResult(input_path, is_cif, pdblist, errlist)
       IN  /\ open_files' = open_files \cup f.opened
           /\ IF f.out.kind = "raise"
              THEN /\ m_in' = [op |-> "get_molecule", input_path |-> input_path,
                               parsed |-> FALSE, pdblist |-> <<>>,
                               errlist |-> <<>>]
                   /\ m_out' = f.out
                   /\ m_log' = <<>>
              ELSE /\ m_in' = [op |-> "get_molecule", input_path |-> input_path,
                               parsed |-> TRUE, pdblist |-> pdblist,
                               errlist |-> errlist]
                   /\ m_out' = r.out
                   /\ m_log' = r.log
    /\ UNCHANGED notM

GetMolecule ==
    \E input_path \in MolPaths, is_file \in BOOLEAN,
       pdblist \in ParsedLists, errlist \in ErrorLists :
        get_molecule(input_path, is_file, pdblist, errlist)

(***************************************************************************)
(* get_definitions (io.py 478-501)                                         *)
(***************************************************************************)
\* What the environment gives for one of the three definition files:
\* "missing" (test_xml_file raises), "unreadable" (found, but open() raises)
\* or "ok".
FileStates == {"ok", "missing", "unreadable"}
DefNames == <<"AA.xml", "NA.xml", "PATCHES.xml">>

\* Lines 495-500: the nested with statements.  opened: the handles the with
\* statements acquired; each is released when its with block is left, by the
\* end of the block or by an exception.
get_definitions(st, parse_ok) ==
    /\ m_calls < MaxCalls
    /\ m_calls' = m_calls + 1
    /\ LET missing == {i \in 1..3 : st[i] = "missing"}
           unreadable == {i \in 1..3 : st[i] = "unreadable"}
           \* the with statements entered before the first open() that fails
           entered == {i \in 1..3 : \A j \in 1..i : st[j] = "ok"}
           opened == IF missing # {} THEN {}
                     ELSE {Handle(DefNames[i], m_calls + 1) : i \in entered}
           released == opened
       IN  /\ open_files' = (open_files \cup opened) \ released
           /\ m_out' = IF missing # {} THEN Raise("FileNotFoundError")
                       ELSE IF unreadable # {} THEN Raise("OSError")
                       ELSE IF ~parse_ok THEN Raise("DefinitionError")
                       ELSE Return("definitions")
           /\ m_in' = [op |-> "get_definitions", input_path |-> None,
                       parsed |-> missing = {} /\ unreadable = {},
                       pdblist |-> <<>>, errlist |-> <<>>]
           /\ m_log' = <<>>
    /\ UNCHANGED notM

GetDefinitions ==
    \E st \in [1..3 -> FileStates], parse_ok \in BOOLEAN :
        get_definitions(st, parse_ok)

FilesInit ==
    /\ open_files = {}
    /\ m_in = [op |-> None, input_path |-> None, parsed |-> FALSE,
               pdblist |-> <<>>, errlist |-> <<>>]
    /\ m_out = [kind |-> None, value |-> None]
    /\ m_log = <<>>
    /\ m_calls = 0

(***************************************************************************)
(* print_pqr, print_pdb (io.py 662-732)                                    *)
(***************************************************************************)
MaxEmitLines == 3

\* Lines 699-700 and 729-730.
CifLine(line) ==
    LET words == Split(line)
    IN  Join(" ", [i \in 1..Len(words) |->
                     IF words[i] # "_" THEN words[i] ELSE "."]) \o "\n"

\* Lines 684-696: what the whitespace option writes for one line.
WhitespaceLine(line) ==
    IF Slice(line, 0, 4) = "ATOM" \/ Slice(line, 0, 6) = "HETATM"
    THEN <<Slice(line, 0, 6) \o " " \o Slice(line, 6, 16) \o " "
           \o Slice(line, 16, 38) \o " " \o Slice(line, 38, 46) \o " "
           \o SliceFrom(line, 46)>>
    ELSE <<>>

PlainLineTerTestedFirst(line, is_cif) ==
    IF Slice(line, 0, 3) # "TER" \/ ~is_cif
    THEN <<IF is_cif THEN CifLine(line) ELSE line>>
    ELSE <<>>

\* Lines 698-702 and 728-732: what is written for one line otherwise.
PlainLine(line, is_cif) ==
    LET out == IF is_cif THEN CifLine(line) ELSE line
    IN  IF Slice(out, 0, 3) # "TER" \/ ~is_cif THEN <<out>> ELSE <<>>

\* Lines 682-702.
RECURSIVE PqrBody(_, _, _)
PqrBody(lines, whitespace, is_cif) ==
    IF lines = <<>> THEN <<>>
    ELSE (IF whitespace THEN WhitespaceLine(Head(lines))
          ELSE PlainLine(Head(lines), is_cif))
         \o PqrBody(Tail(lines), whitespace, is_cif)

\* Lines 703-704.
PqrClose(is_cif) == IF is_cif THEN <<"#\n">> ELSE <<>>

\* Lines 727-732.
RECURSIVE PdbBody(_, _)
PdbBody(lines, is_cif) ==
    IF lines = <<>> THEN <<>>
    ELSE PlainLine(Head(lines), is_cif) \o PdbBody(Tail(lines), is_cif)

\* After line 732 print_pdb has no statement left: nothing closes the loop.
PdbClose(is_cif) == <<>>

\* Lines 674-681 and 719-726.
IgnoredLog(header_lines, missing_lines) ==
    (IF header_lines # <<>> THEN <<<<"Ignoring header lines", Len(header_lines)>>>>
     ELSE <<>>)
    \o (IF missing_lines # <<>>
        THEN <<<<"Ignoring missing lines", Len(missing_lines)>>>>
        ELSE <<>>)

EmitLines ==
    {"ATOM      1  N   MET A   1      37.511   5.000  -1.5 _\n",
     "HETATM 2 O HOH _ 12 _x\n",
     "TER\n",
     "TER\nEND",
     "  TERM _\n",
     "REMARK _ _\n"}
EmitArgs ==
    [whitespace : BOOLEAN, is_cif : BOOLEAN,
     lines : SeqsUpTo(EmitLines, MaxEmitLines),
     header_lines : {<<>>, <<"REMARK   1">>},
     missing_lines : {<<>>, <<"REMARK   5    17 O2 in LIG 12">>}]

EmitInit ==
    /\ e_args \in EmitArgs
    /\ outfile = <<>>
    /\ e_log = <<>>
    /\ e_pc = "call"

EmitIdle ==
    /\ e_args = [whitespace |-> FALSE, is_cif |-> FALSE, lines |-> <<>>,
                 header_lines |-> <<>>, missing_lines |-> <<>>]
    /\ outfile = <<>>
    /\ e_log = <<>>
    /\ e_pc = "idle"

\* The with statement of line 672 (717): the file is open inside the block
\* and closed when the block is left.
print_pqr ==
    /\ e_pc = "call"
    /\ LET h == Handle("output_pqr", 1)
       IN  open_files' = (open_files \cup {h}) \ {h}
    /\ e_log' = IgnoredLog(e_args.header_lines, e_args.missing_lines)
    /\ outfile' = PqrBody(e_args.lines, e_args.whitespace, e_args.is_cif)
                  \o PqrClose(e_args.is_cif)
    /\ e_pc' = "print_pqr"
    /\ UNCHANGED e_args
    /\ UNCHANGED notE

print_pdb ==
    /\ e_pc = "call"
    /\ LET h == Handle("pdb_output", 1)
       IN  open_files' = (open_files \cup {h}) \ {h}
    /\ e_log' = IgnoredLog(e_args.header_lines, e_args.missing_lines)
    /\ outfile' = PdbBody(e_args.lines, e_args.is_cif) \o PdbClose(e_args.is_cif)
    /\ e_pc' = "print_pdb"
    /\ UNCHANGED e_args
    /\ UNCHANGED notE

(***************************************************************************)
(* read_dx, write_cube (io.py 563-659)                                     *)
(***************************************************************************)
\* A float is held in fixed point, in thousandths: x = n / 1000.

\* int(word) and float(word) for decimal words: an optional "-", digits, and
\* for a float an optional "." with up to three digits after it.
DecimalDigits == "0123456789"
DigitVal(c) == (CHOOSE i \in 1..10 : CharAt(DecimalDigits, i) = c) - 1
RECURSIVE ParseNat(_)
ParseNat(s) ==
    IF Len(s) = 0 THEN 0
    ELSE ParseNat(SubSeq(s, 1, Len(s) - 1)) * 10 + DigitVal(CharAt(s, Len(s)))
ParseInt(s) ==
    IF StartsWith(s, "-") THEN -ParseNat(SliceFrom(s, 1)) ELSE ParseNat(s)
ParseFloat(s) ==
    LET neg == StartsWith(s, "-")
        body == IF neg THEN SliceFrom(s, 1) ELSE s
        dots == {i \in 1..Len(body) : CharAt(body, i) = "."}
        p == IF dots = {} THEN Len(body) + 1 ELSE MinOf(dots)
        whole == SubSeq(body, 1, p - 1)
        frac == SubSeq(SubSeq(body, p + 1, Len(body)) \o "000", 1, 3)
        n == ParseNat(whole) * 1000 + ParseNat(frac)
    IN  IF neg THEN -n ELSE n

\* Format specifications ">w" and "<w": pad to width w, never cut.
Blanks(n) == SubSeq("                ", 1, n)
RJust(s, w) == IF Len(s) >= w THEN s ELSE Blanks(w - Len(s)) \o s
LJust(s, w) == IF Len(s) >= w THEN s ELSE s \o Blanks(w - Len(s))

\* f"{k:>4}" for an integer k.
FmtInt4(k) == RJust(Sign(k) \o ToString(Abs(k)), 4)

\* f"{x:>11.6f}".
Fmt11_6f(n) ==
    RJust(Sign(n) \o ToString(Abs(n) \div 1000) \o "." \o Digit(Abs(n) \div 100)
          \o Digit(Abs(n) \div 10) \o Digit(Abs(n)) \o "000", 11)

\* f"{x:< 13.5E}": a blank or "-" for the sign, one digit, five decimals, an
\* exponent of at least two digits, padded on the right to 13 characters.
\* Exact for |n| < 10^6 (six significant digits, nothing to round).
FmtE(n) ==
    LET a == Abs(n)
        e == IF a = 0 THEN 0 ELSE Len(ToString(a)) - 4
        d == SubSeq(ToString(a) \o "00000", 1, 6)
    IN  LJust((IF n < 0 THEN "-" ELSE " ") \o CharAt(d, 1) \o "."
              \o SubSeq(d, 2, 6) \o "E" \o (IF e < 0 THEN "-" ELSE "+")
              \o Digit(Abs(e) \div 10) \o Digit(Abs(e)), 13)

\* Lines 580-585.
DxEmpty ==
    [grid_spacing |-> <<>>, values |-> <<>>,
     number_of_grid_points |-> None, lower_left_corner |-> None]

\* The indexing of lines 588-604 that fails on a line with too few words.
DxLineRaises(words) ==
    \/ words = <<>>
    \/ /\ words[1] \notin {"#", "attribute", "component"}
       /\ \/ words[1] = "object" /\ Len(words) < 2
          \/ words[1] = "object" /\ words[2] = "1" /\ Len(words) < 8
          \/ words[1] \in {"origin", "delta"} /\ Len(words) < 4

\* Lines 588-608: what one line does to the dictionary.
DxLine(d, words) ==
    IF words[1] \in {"#", "attribute", "component"} THEN d
    ELSE IF words[1] = "object"
    THEN IF words[2] = "1"
         THEN [d EXCEPT !.number_of_grid_points =
                  <<ParseInt(words[6]), ParseInt(words[7]), ParseInt(words[8])>>]
         ELSE d
    ELSE IF words[1] = "origin"
    THEN [d EXCEPT !.lower_left_corner =
             <<ParseFloat(words[2]), ParseFloat(words[3]), ParseFloat(words[4])>>]
    ELSE IF words[1] = "delta"
    THEN [d EXCEPT !.grid_spacing =
             Append(@, <<ParseFloat(words[2]), ParseFloat(words[3]),
                         ParseFloat(words[4])>>)]
    ELSE [d EXCEPT !.values =
             @ \o [k \in 1..Len(words) |-> ParseFloat(words[k])]]

\* Lines 586-609.
RECURSIVE DxLoop(_, _)
DxLoop(d, lines) ==
    IF lines = <<>> THEN Return(d)
    ELSE LET words == Split(Head(lines))
         IN  IF DxLineRaises(words) THEN Raise("IndexError")
             ELSE DxLoop(DxLine(d, words), Tail(lines))

read_dx(lines) == DxLoop(DxEmpty, lines)

\* Lines 632-635.
CubeOriginLine(num_atoms, origin) ==
    FmtInt4(num_atoms) \o " " \o Fmt11_6f(origin[1]) \o " "
    \o Fmt11_6f(origin[2]) \o " " \o Fmt11_6f(origin[3]) \o "\n"

\* A variant that writes the count as it is.
AxisLineNotNegated(num_points, spacings, i) ==
    FmtInt4(num_points[i]) \o " " \o Fmt11_6f(spacings[i][1]) \o " "
    \o Fmt11_6f(spacings[i][2]) \o " " \o Fmt11_6f(spacings[i][3]) \o "\n"

\* Lines 639-644, for axis i (1-based here).
AxisLine(num_points, spacings, i) ==
    FmtInt4(-num_points[i]) \o " " \o Fmt11_6f(spacings[i][1]) \o " "
    \o Fmt11_6f(spacings[i][2]) \o " " \o Fmt11_6f(spacings[i][3]) \o "\n"

\* Lines 646-649.
CubeAtomLine(atom) ==
    FmtInt4(atom.serial) \o " " \o Fmt11_6f(atom.charge) \o " "
    \o Fmt11_6f(atom.x) \o " " \o Fmt11_6f(atom.y) \o " "
    \o Fmt11_6f(atom.z) \o "\n"

stride == 6

\* A variant that also ends a chunk that reaches the end exactly with a line
\* break.
MoreFollowsOrEnd(i, n) == i + stride <= n

\* Line 653.
MoreFollows(i, n) == i + stride < n

\* Lines 655 and 658.
CubeWords(values) == [k \in 1..Len(values) |-> FmtE(values[k])]

\* Lines 652-659, from offset i (0-based) on: the strings written.
RECURSIVE CubeValues(_, _)
CubeValues(values, i) ==
    IF i >= Len(values) THEN <<>>
    ELSE IF MoreFollows(i, Len(values))
    THEN <<Join(" ", CubeWords(Slice(values, i, i + 6))) \o "\n">>
         \o CubeValues(values, i + 6)
    ELSE <<Join(" ", CubeWords(SliceFrom(values, i)))>>
         \o CubeValues(values, i + 6)

\* Lines 628-659: the strings written to cube_file, in order.
write_cube(data_dict, atom_list, comment) ==
    LET origin == data_dict.lower_left_corner
        num_points == data_dict.number_of_grid_points
        spacings == data_dict.grid_spacing
    IN  <<comment \o "\n", "OUTER LOOP: X, MIDDLE LOOP: Y, INNER LOOP: Z\n",
          CubeOriginLine(Len(atom_list), origin)>>
        \o [i \in 1..3 |-> AxisLine(num_points, spacings, i)]
        \o [k \in 1..Len(atom_list) |-> CubeAtomLine(atom_list[k])]
        \o CubeValues(data_dict.values, 0)

\* The DX texts of the model are rendered from numbers: a decimal word for a
\* value in thousandths, without trailing zeros.
DxWord(n) ==
    LET f == Abs(n) % 1000
    IN  Sign(n) \o ToString(Abs(n) \div 1000)
        \o (IF f = 0 THEN ""
            ELSE IF f % 100 = 0 THEN "." \o Digit(f \div 100)
            ELSE IF f % 10 = 0 THEN "." \o Digit(f \div 100) \o Digit(f \div 10)
            ELSE "." \o Digit(f \div 100) \o Digit(f \div 10) \o Digit(f))
DxWords(v) == Join(" ", [k \in 1..Len(v) |-> DxWord(v[k])])
DxCounts(dims) == Join(" ", [k \in 1..Len(dims) |-> ToString(dims[k])])

\* The data lines: per_line words on each, the last line possibly shorter.
RECURSIVE DxDataLines(_, _)
DxDataLines(values, per_line) ==
    IF values = <<>> THEN <<>>
    ELSE <<DxWords(SubSeq(values, 1, Min(per_line, Len(values)))) \o "\n">>
         \o DxDataLines(SubSeq(values, per_line + 1, Len(values)), per_line)

\* extra = "none": the object 1, origin, delta and data lines only;
\* "full": with the comment, object 2/3, attribute and component lines of an
\* OpenDX file; "blank": with an empty last line.
DxText(in) ==
    (IF in.extra = "full" THEN <<"# Data from APBS\n", "#\n">> ELSE <<>>)
    \o <<"object 1 class gridpositions counts " \o DxCounts(in.dims) \o "\n",
         "origin " \o DxWords(in.origin) \o "\n">>
    \o [i \in 1..3 |-> "delta " \o DxWords(in.deltas[i]) \o "\n"]
    \o (IF in.extra = "full"
        THEN <<"object 2 class gridconnections counts " \o DxCounts(in.dims)
               \o "\n",
               "object 3 class array type double rank 0 items "
               \o ToString(Len(in.values)) \o " data follows\n">>
        ELSE <<>>)
    \o DxDataLines(in.values, in.per_line)
    \o (IF in.extra = "full"
        THEN <<"attribute \"dep\" string \"positions\"\n",
               "object \"regular positions regular connections\" class field\n",
               "component \"positions\" value 1\n">>
        ELSE IF in.extra = "blank" THEN <<"\n">>
        ELSE <<>>)

MaxValues == 13
\* The i-th value of a grid: zero, small, negative, whole and mixed numbers.
GridValue(i) ==
    CASE i % 5 = 0 -> 0
      [] i % 5 = 1 -> i
      [] i % 5 = 2 -> -(i * 250)
      [] i % 5 = 3 -> i * 1000
      [] OTHER -> -(i * 1000 + 500)
GridDims == {<<2, 2, 2>>, <<1, 2, 3>>, <<12, 3, 4>>}
GridOrigins == {<<0, 0, 0>>, <<-12500, 250, 3001>>}
GridDeltas ==
    {<<<<500, 0, 0>>, <<0, 250, 0>>, <<0, 0, 1500>>>>,
     <<<<500, 0, 0>>, <<-100, 500, 0>>, <<0, 125, 2000>>>>}
GridPerLine == {3, 5}
GridAtoms ==
    {[serial |-> 1, charge |-> -500, x |-> 1250, y |-> 0, z |-> -3001]}

GridInit ==
    /\ \E dims \in GridDims, origin \in GridOrigins, deltas \in GridDeltas,
          m \in 0..MaxValues, per_line \in GridPerLine,
          extra \in {"none", "full", "blank"} :
        dx_in = [dims |-> dims, origin |-> origin, deltas |-> deltas,
                 values |-> [i \in 1..m |-> GridValue(i)],
                 per_line |-> per_line, extra |-> extra]
    /\ dx_file = DxText(dx_in)
    /\ dx_dict = DxEmpty
    /\ g_atoms = <<>>
    /\ cube_file = <<>>
    /\ g_pc = "call"

GridIdle ==
    /\ dx_in = [dims |-> <<>>, origin |-> <<>>, deltas |-> <<>>,
                values |-> <<>>, per_line |-> 0, extra |-> "none"]
    /\ dx_file = <<>>
    /\ dx_dict = DxEmpty
    /\ g_atoms = <<>>
    /\ cube_file = <<>>
    /\ g_pc = "idle"

ReadDx ==
    /\ g_pc = "call"
    /\ LET r == read_dx(dx_file)
       IN  IF r.kind = "return"
           THEN dx_dict' = r.value /\ g_pc' = "read"
           ELSE dx_dict' = DxEmpty /\ g_pc' = r.value
    /\ UNCHANGED <<dx_in, dx_file, g_atoms, cube_file>>
    /\ UNCHANGED notG

WriteCube ==
    /\ g_pc = "read"
    /\ \E atom_list \in SeqsUpTo(GridAtoms, 1) :
        /\ g_atoms' = atom_list
        /\ cube_file' = write_cube(dx_dict, atom_list, "CPMD CUBE FILE.")
    /\ g_pc' = "written"
    /\ UNCHANGED <<dx_in, dx_file, dx_dict>>
    /\ UNCHANGED notG

(***************************************************************************)
(* Specifications: one per component, the others idle.                     *)
(***************************************************************************)
InitFilter ==
    FilterInit /\ AtomsIdle /\ HeaderIdle /\ ColumnsIdle /\ FilesInit /\ EmitIdle
    /\ GridIdle
NextFilter == Filter
SpecFilter == InitFilter /\ [][NextFilter]_vars

InitAtoms ==
    AtomsInit /\ FilterInit /\ HeaderIdle /\ ColumnsIdle /\ FilesInit /\ EmitIdle
    /\ GridIdle
NextAtoms == print_biomolecule_atoms
SpecAtoms == InitAtoms /\ [][NextAtoms]_vars

InitHeader ==
    HeaderInit /\ FilterInit /\ AtomsIdle /\ ColumnsIdle /\ FilesInit /\ EmitIdle
    /\ GridIdle
NextHeader == PrintPqrHeader \/ PrintPqrHeaderCif \/ GetOldHeader
SpecHeader == InitHeader /\ [][NextHeader]_vars

InitColumns ==
    ColumnsInit /\ FilterInit /\ AtomsIdle /\ HeaderIdle /\ FilesInit /\ EmitIdle
    /\ GridIdle
NextColumns == GenerateAtomSiteColumns
SpecColumns == InitColumns /\ [][NextColumns]_vars

InitFiles ==
    FilesInit /\ FilterInit /\ AtomsIdle /\ HeaderIdle /\ ColumnsIdle /\ EmitIdle
    /\ GridIdle
NextFiles == GetMolecule \/ GetDefinitions
SpecFiles == InitFiles /\ [][NextFiles]_vars

InitEmit ==
    EmitInit /\ FilesInit /\ FilterInit /\ AtomsIdle /\ HeaderIdle /\ ColumnsIdle
    /\ GridIdle
NextEmit == print_pqr \/ print_pdb
SpecEmit == InitEmit /\ [][NextEmit]_vars

InitGrid ==
    GridInit /\ FilterInit /\ AtomsIdle /\ HeaderIdle /\ ColumnsIdle /\ FilesInit
    /\ EmitIdle
NextGrid == ReadDx \/ WriteCube
SpecGrid == InitGrid /\ [][NextGrid]_vars

(***************************************************************************)
(* Properties                                                              *)
(***************************************************************************)
Count(seq, x) == Cardinality({i \in 1..Len(seq) : seq[i] = x})
Last(seq) == seq[Len(seq)]

\* The last filter() call was on a WARNING record that starts with a watched
\* prefix.
FilterWatched == f_rec.levelname = "WARNING" /\ FirstMatch(f_rec.msg) # 0

\* C1: a WARNING record that starts with watched prefix p is allowed when p's
\* count after the increment is below the limit, allowed when it equals the
\* limit, and suppressed when it exceeds the limit.
C1_AllowedUpToLimit ==
    FilterWatched =>
        LET count == warn_count[FirstMatch(f_rec.msg)]
        IN  /\ count < FILTER_WARNINGS_LIMIT => f_ret = TRUE
            /\ count = FILTER_WARNINGS_LIMIT => f_ret = TRUE
            /\ count > FILTER_WARNINGS_LIMIT => f_ret = FALSE

\* C2: after print_biomolecule_atoms returns, the atom at position i (0-based)
\* has serial i + 1, whatever its serial was; the atoms are otherwise the same.
C2_DenseSerials ==
    pba_pc = "returned" =>
        /\ Len(atomlist) = Len(pba_in)
        /\ \A i \in 1..Len(atomlist) :
            /\ atomlist[i].serial = i
            /\ atomlist[i].chain_id = pba_in[i].chain_id

C2_Witness ==
    /\ pba_pc = "returned"
    /\ pba_args.ciffile
    /\ Len(atomlist) >= 3
    /\ pba_in[1].serial = 7 /\ pba_in[2].serial = 0 /\ pba_in[3].serial = 7
    /\ atomlist[3].serial = 3

\* The returned list without its closing "TER\nEND" element (which only the
\* non-CIF dialects have).
PbaBody == IF pba_args.ciffile THEN text ELSE SubSeq(text, 1, Len(text) - 1)
\* The atoms (1-based positions) whose chain id differs from the atom before.
ChainChanges ==
    {i \in 2..Len(pba_in) : pba_in[i].chain_id # pba_in[i - 1].chain_id}
\* Where atom i's line must be: after i - 1 atom lines and one TER per chain
\* change up to and including atom i.
AtomLinePos(i) == i + Cardinality({c \in ChainChanges : c <= i})

\* C3: before the closing element, a TER element stands immediately before
\* the line of each atom whose chain id differs from the preceding atom's,
\* and nowhere else: N atoms with k chain changes give N + k elements.
C3_TerBetweenChains ==
    pba_pc = "returned" =>
        /\ ~pba_args.ciffile => Len(text) >= 1 /\ Last(text).kind = "TER\nEND"
        /\ Len(PbaBody) = Len(pba_in) + Cardinality(ChainChanges)
        /\ \A i \in 1..Len(pba_in) :
            /\ PbaBody[AtomLinePos(i)].kind = "atom"
            /\ PbaBody[AtomLinePos(i)].serial = i
            /\ PbaBody[AtomLinePos(i)].chain_id = pba_in[i].chain_id
        /\ \A j \in 1..Len(PbaBody) :
            PbaBody[j].kind = "TER\n"
                <=> \E i \in ChainChanges : j = AtomLinePos(i) - 1

C3_Witness ==
    /\ pba_pc = "returned"
    /\ ~pba_args.ciffile
    /\ Len(pba_in) = 3
    /\ pba_in[1].chain_id = "A" /\ pba_in[2].chain_id = "A"
    /\ pba_in[3].chain_id = "B"
    /\ Len(PbaBody) = 4
    /\ PbaBody[3].kind = "TER\n"

\* The input lines, tokenized on whitespace.
LineWords == [i \in 1..Len(pdb_lines) |-> Split(pdb_lines[i])]
\* C4: every line of 23 or of 25 tokens gives one entry to every returned
\* column and every other line gives none: all 21 columns have as many
\* entries as there are accepted lines, in input order.
C4_ColumnsInLockStep ==
    c_pc = "returned" =>
        LET words == LineWords
            accepted == {i \in 1..Len(pdb_lines) : Len(words[i]) \in {23, 25}}
            nth == [r \in 1..Cardinality(accepted) |->
                      CHOOSE i \in accepted :
                          Cardinality({j \in accepted : j <= i}) = r]
        IN  /\ Len(cols) = 21
            /\ \A k \in 1..Len(cols) :
                /\ Len(cols[k]) = Cardinality(accepted)
                /\ \A r \in 1..Len(cols[k]) :
                    cols[k][r] = words[nth[r]][col_idx[ColumnOrder[k]] + 1]

C4_Witness ==
    /\ c_pc = "returned"
    /\ Len(pdb_lines) = 2
    /\ Len(Split(pdb_lines[1])) = 24
    /\ Len(Split(pdb_lines[2])) = 23
    /\ \A k \in 1..21 : Len(cols[k]) = 1
    /\ cols[4] = <<"b20">>

\* C5: once the parser has returned, get_molecule raises exactly when the
\* parser gave no records and no errors; with a non-empty error list it logs
\* a warning and returns the parsed records with the is-CIF flag.
C5_EmptyResultIsFatal ==
    (m_in.op = "get_molecule" /\ m_in.parsed) =>
        /\ m_out.kind = "raise" <=> (m_in.pdblist = <<>> /\ m_in.errlist = <<>>)
        /\ m_out.kind = "raise" => m_out.value = "RuntimeError"
        /\ m_out.kind = "return" =>
            /\ m_out.value.pdblist = m_in.pdblist
            /\ m_out.value.is_cif = (m_in.input_path \in {"1ABC.CIF", "model.cif"})
        /\ m_in.errlist # <<>> =>
            /\ m_out.kind = "return"
            /\ \E i \in 1..Len(m_log) : m_log[i].level = "WARNING"

C5_Witness ==
    /\ m_in.op = "get_molecule" /\ m_in.parsed
    /\ m_in.pdblist = <<>> /\ m_in.errlist # <<>>
    /\ m_out.kind = "return"
    /\ m_out.value.is_cif

\* C6: every file an operation opens is closed by the time the operation
\* returns or raises; no handle stays open after get_molecule completes.
C6_NoOpenFileAfterCall ==
    m_out.kind \in {"return", "raise"} => open_files = {}

Emitted == e_pc \in {"print_pqr", "print_pdb"}
\* The record lines of the output: what was written before the closing "#"
\* line that print_pqr adds for the columnar dialect.
RecordLines ==
    IF e_pc = "print_pqr" /\ e_args.is_cif
    THEN SubSeq(outfile, 1, Len(outfile) - 1)
    ELSE outfile
\* A line's whitespace tokens joined by single spaces, each "_" token
\* replaced by ".".
Retokenized(line) ==
    LET words == Split(line)
    IN  Join(" ", [i \in 1..Len(words) |->
                     IF words[i] = "_" THEN "." ELSE words[i]]) \o "\n"
NotTer(line) == ~StartsWith(line, "TER")
\* What the columnar dialect writes without the whitespace option: no line
\* that begins with TER, every other line retokenized, in input order.
ColumnarLinesWritten ==
    /\ \A i \in 1..Len(RecordLines) : NotTer(RecordLines[i])
    /\ RecordLines =
        SelectSeq([i \in 1..Len(e_args.lines) |-> Retokenized(e_args.lines[i])],
                  NotTer)

\* C7 as stated: columnar and no whitespace option: no TER line is written
\* and every written line is retokenized; not columnar: every input line is
\* written unchanged.
C7_AsStated ==
    Emitted =>
        /\ (e_args.is_cif /\ ~e_args.whitespace) => ColumnarLinesWritten
        /\ ~e_args.is_cif => outfile = e_args.lines

\* C7, amended: the same, and the non-columnar case also without the
\* whitespace option: every input line is written unchanged.
C7_WithoutWhitespaceOption ==
    Emitted =>
        /\ (e_args.is_cif /\ ~e_args.whitespace) => ColumnarLinesWritten
        /\ (~e_args.is_cif /\ ~e_args.whitespace) => outfile = e_args.lines

C7_Witness ==
    /\ e_pc = "print_pqr"
    /\ e_args.is_cif /\ ~e_args.whitespace
    /\ e_args.lines = <<"HETATM 2 O HOH _ 12 _x\n", "TER\n", "  TERM _\n">>
    /\ outfile = <<"HETATM 2 O HOH . 12 _x\n", "#\n">>

\* C8: for the columnar dialect the written file ends with one "#" line after
\* the record lines, with or without the whitespace option, from print_pqr
\* and from print_pdb; for the other dialects no "#" line is written.
C8_LoopClosed ==
    Emitted =>
        /\ e_args.is_cif =>
            /\ Len(outfile) >= 1
            /\ Last(outfile) = "#\n"
            /\ Count(outfile, "#\n") = 1
        /\ ~e_args.is_cif => Count(outfile, "#\n") = 0

Positions(seq, x) == {i \in 1..Len(seq) : seq[i] = x}
\* The first line of each section print_pqr_header is to write for h_args,
\* in the order of the contract.
PqrSectionMarks ==
    <<PqrBannerLine, PqrForcefieldLine(ForceFieldName(h_args.force_field))>>
    \o (IF h_args.ffout # None THEN <<PqrNamingLine(h_args.ffout)>> ELSE <<>>)
    \o (IF h_args.ph_calc_method # None
        THEN <<PqrPkaLine(h_args.ph_calc_method, h_args.ph)>> ELSE <<>>)
    \o (IF h_args.atomlist # <<>> THEN <<PqrOmitBanner[1]>> ELSE <<>>)
    \o (IF h_args.reslist # <<>> THEN <<PqrChargeBanner[1]>> ELSE <<>>)
    \o <<PqrTotalLine(h_args.charge)>>
    \o (IF h_args.include_old_header
        THEN <<"REMARK   7 Original PDB header follows">> ELSE <<>>)

\* C9: the header of print_pqr_header holds its sections in the fixed order,
\* each exactly once: the banner and the forcefield line are not repeated.
C9_SectionsOnceInOrder ==
    h_pc = "pqr" =>
        /\ \A k \in 1..Len(PqrSectionMarks) :
            Cardinality(Positions(head, PqrSectionMarks[k])) = 1
        /\ \A k \in 1..(Len(PqrSectionMarks) - 1) :
            \A i \in Positions(head, PqrSectionMarks[k]) :
                \A j \in Positions(head, PqrSectionMarks[k + 1]) : i < j

\* An advisory section in a header: absent when the list is empty; otherwise
\* the two banner lines once, then one line per item in list order, and the
\* line after them is not an item line.
AdvisoryOk(hd, banner, items, lines, all_lines) ==
    IF items = <<>>
    THEN /\ Positions(hd, banner[1]) = {}
         /\ Positions(hd, banner[2]) = {}
         /\ \A i \in 1..Len(hd) : hd[i] \notin all_lines
    ELSE /\ Cardinality(Positions(hd, banner[1])) = 1
         /\ \A b \in Positions(hd, banner[1]) :
             /\ b + 1 + Len(items) < Len(hd)
             /\ hd[b + 1] = banner[2]
             /\ \A k \in 1..Len(items) : hd[b + 1 + k] = lines[k]
             /\ hd[b + 2 + Len(items)] \notin all_lines
             /\ Cardinality({i \in 1..Len(hd) : hd[i] \in all_lines}) = Len(items)

\* C10: in both header variants the omitted-atom banner appears exactly when
\* the atom list is non-empty and is followed by one line per atom in list
\* order; likewise the non-integral-charge banner and the residue list.
C10_AdvisoryIffNonEmpty ==
    /\ h_pc = "pqr" =>
        /\ AdvisoryOk(head, PqrOmitBanner, h_args.atomlist,
                      [k \in 1..Len(h_args.atomlist) |->
                          PqrOmitLine(h_args.atomlist[k])],
                      {PqrOmitLine(a) : a \in HAtoms})
        /\ AdvisoryOk(head, PqrChargeBanner, h_args.reslist,
                      [k \in 1..Len(h_args.reslist) |->
                          PqrChargeLine(h_args.reslist[k])],
                      {PqrChargeLine(r) : r \in HResidues})
    /\ h_pc = "cif" =>
        /\ AdvisoryOk(head, CifOmitBanner, h_args.atomlist,
                      [k \in 1..Len(h_args.atomlist) |->
                          CifOmitLine(h_args.atomlist[k])],
                      {CifOmitLine(a) : a \in HAtoms})
        /\ AdvisoryOk(head, CifChargeBanner, h_args.reslist,
                      [k \in 1..Len(h_args.reslist) |->
                          CifChargeLine(h_args.reslist[k])],
                      {CifChargeLine(r) : r \in HResidues})

C10_Witness ==
    /\ h_pc = "pqr"
    /\ Len(h_args.atomlist) = 1
    /\ h_args.reslist = <<>>
    /\ \E i \in 1..Len(head) : head[i] = "REMARK   5    17 O2 in LIG 12"
    /\ Positions(head, PqrChargeBanner[1]) = {}

\* The length of the longest leading run of records of a header type.
LeadingRun(pdblist) ==
    CHOOSE k \in 0..Len(pdblist) :
        /\ \A i \in 1..k : pdblist[i].type \in header_types
        /\ k < Len(pdblist) => pdblist[k + 1].type \notin header_types

\* C11: get_old_header returns, one per line and in the original order, the
\* rendering of exactly the longest leading run of records of a header type;
\* nothing after the first record of another type is emitted.
C11_LeadingHeaderRun ==
    h_pc = "old" =>
        LET run == LeadingRun(h_args.pdblist)
        IN  /\ Len(head) = run
            /\ \A i \in 1..run : head[i] = h_args.pdblist[i].str

\* A header record after a record of another type is left out.
C11_Witness ==
    /\ h_pc = "old"
    /\ Len(h_args.pdblist) = 2
    /\ h_args.pdblist[1].type = "ATOM"
    /\ h_args.pdblist[2].type = "REMARK"
    /\ head = <<>>

\* C14: the "Suppressing further" notice for a watched prefix p has been
\* emitted once if p's counter has reached the limit and never otherwise; the
\* record that brings the counter to exactly the limit is the one that emits
\* it.
C14_NoticeExactlyOnce ==
    /\ \A p \in FwIndex :
        Count(notices, p) = IF warn_count[p] >= FILTER_WARNINGS_LIMIT THEN 1 ELSE 0
    /\ \A p \in FwIndex :
        (/\ FilterWatched
         /\ FirstMatch(f_rec.msg) = p
         /\ warn_count[p] = FILTER_WARNINGS_LIMIT) =>
            (notices # <<>> /\ Last(notices) = p)
    /\ Len(notices) = Cardinality({p \in FwIndex : Count(notices, p) > 0})

\* One prefix is past the limit and has had its one notice; the other is
\* still below the limit and has had none.
C14_Witness ==
    /\ notices = <<2>>
    /\ warn_count[2] > FILTER_WARNINGS_LIMIT
    /\ warn_count[1] = FILTER_WARNINGS_LIMIT - 1

\* C15: a record whose level is not WARNING, or whose message starts with no
\* watched prefix, is allowed and leaves every counter as it was, whatever the
\* counters are.
C15_UnwatchedPassesUntouched ==
    (f_calls > 0 /\ ~FilterWatched) =>
        /\ f_ret = TRUE
        /\ warn_count = f_prev

\* A record below WARNING that starts with a prefix whose counter is past the
\* limit.
C15_Witness ==
    /\ f_calls > 0
    /\ f_rec.levelname = "INFO"
    /\ FirstMatch(f_rec.msg) = 1
    /\ f_prev[1] > FILTER_WARNINGS_LIMIT
    /\ f_ret = TRUE
    /\ warn_count = f_prev

\* What write_cube wrote after the six header lines and the atom lines.
CubeValueWrites == SubSeq(cube_file, 7 + Len(g_atoms), Len(cube_file))
LineBreaks(s) == {i \in 1..Len(s) : CharAt(s, i) = "\n"}
\* A formatted field without its padding.
Stripped(field) == Split(field)[1]
RECURSIVE WordCount(_)
WordCount(writes) ==
    IF writes = <<>> THEN 0
    ELSE Len(Split(Head(writes))) + WordCount(Tail(writes))

\* C12: write_cube writes the n values in sequence order, 6 to a line: every
\* line but the last holds exactly 6 values and ends with a line break, the
\* last holds the remaining 1 to 6 values and no line break, there are
\* ceil(n / 6) lines, and for n = 0 nothing is written.
C12_ChunksOfSix ==
    g_pc = "written" =>
        LET values == dx_dict.values
            n == Len(values)
            w == CubeValueWrites
            lines == Len(w)
        IN  /\ lines = (n + 5) \div 6
            /\ n = 0 => w = <<>>
            /\ \A k \in 1..lines :
                LET words == Split(w[k])
                IN  /\ k < lines =>
                        /\ Len(words) = 6
                        /\ LineBreaks(w[k]) = {Len(w[k])}
                    /\ k = lines =>
                        /\ Len(words) \in 1..6
                        /\ Len(words) = n - 6 * (lines - 1)
                        /\ LineBreaks(w[k]) = {}
                    /\ \A j \in 1..Len(words) :
                        words[j] = Stripped(FmtE(values[6 * (k - 1) + j]))

\* Twelve values: two lines of six, the second without a line break.
C12_Witness ==
    /\ g_pc = "written"
    /\ Len(dx_dict.values) = 12
    /\ Len(CubeValueWrites) = 2
    /\ Len(Split(CubeValueWrites[2])) = 6
    /\ LineBreaks(CubeValueWrites[2]) = {}
    /\ LineBreaks(CubeValueWrites[1]) # {}

\* C13: for a DX text of one object 1 line with counts (nx, ny, nz), one
\* origin line, three delta lines and data lines of m words in all, read_dx
\* yields the counts, the three spacing vectors in file order and the m values
\* in file order; write_cube on that writes three axis lines that start with
\* -nx, -ny, -nz in that order, each followed by the spacing vector of its
\* axis, and writes exactly m values.
C13_GridRoundTrip ==
    /\ g_pc \in {"read", "written"} =>
        /\ dx_dict.number_of_grid_points = dx_in.dims
        /\ dx_dict.grid_spacing = dx_in.deltas
        /\ dx_dict.values = dx_in.values
    /\ g_pc = "written" =>
        /\ \A i \in 1..3 :
            LET fields == Split(cube_file[3 + i])
            IN  /\ Len(fields) = 4
                /\ fields[1] = "-" \o ToString(dx_in.dims[i])
                /\ \A j \in 1..3 :
                    fields[j + 1] = Stripped(Fmt11_6f(dx_in.deltas[i][j]))
        /\ WordCount(CubeValueWrites) = Len(dx_in.values)

\* A text of just those lines, eight values three to a line, counts 1 2 3.
C13_Witness ==
    /\ g_pc = "written"
    /\ dx_in.extra = "none"
    /\ dx_in.dims = <<1, 2, 3>>
    /\ dx_in.per_line = 3
    /\ Len(dx_in.values) = 8
    /\ Len(dx_file) = 8
    /\ dx_dict.number_of_grid_points = <<1, 2, 3>>
    /\ Len(dx_dict.values) = 8
    /\ Split(cube_file[5])[1] = "-2"
    /\ WordCount(CubeValueWrites) = 8

====
